---- MODULE Spec2Model ----
(***************************************************************************)
(* Model of src/main.py: a FastAPI application that provisions a SQLite    *)
(* file at startup and serves GET /trips (validated, rate limited,         *)
(* filtered, sorted, paginated).                                           *)
(*                                                                         *)
(* Optional query parameters (Optional[int], Optional[str]) are sequences  *)
(* of length at most one: <<>> is None, <<v>> is the value v.  The order   *)
(* parameter is a sequence of characters so that lower(), upper() and the  *)
(* pattern match are computed, not assumed.                                *)
(***************************************************************************)
EXTENDS Integers, Sequences, FiniteSets, TLC

(* ------------------------------ bounds --------------------------------- *)
\* stands for le=10000 of limit (main.py:58), scaled down
LimitCap == 2
\* stands for the 100 of "100/minute" (main.py:53), scaled down
RateLimit == 2
\* stands for the 60 seconds of "100/minute" (main.py:53), in clock ticks
Window == 2
\* largest page number a request carries
MaxPage == 2
\* largest number of rows of the trips table
MaxRows == 3
\* number of requests in flight at once in SpecConc
NumSlots == 2
\* processes started in a run of SpecBoot
MaxBoots == 3

(* --------------------------- program constants ------------------------- *)
TABLE_NAME == "trips"

VALID_SORT_COLUMNS ==
    <<"pickup_datetime", "trip_miles", "trip_duration_minutes",
      "PULocationID", "DOLocationID">>

SeqToSet(s) == {s[i] : i \in 1..Len(s)}

(* ------------------------------ strings -------------------------------- *)
\* str.lower() and str.upper() on the characters the inputs use
LowerChar(c) ==
    CASE c = "A" -> "a" [] c = "S" -> "s" [] c = "C" -> "c"
      [] c = "D" -> "d" [] c = "E" -> "e" [] c = "U" -> "u" [] c = "P" -> "p"
      [] OTHER -> c

UpperChar(c) ==
    CASE c = "a" -> "A" [] c = "s" -> "S" [] c = "c" -> "C"
      [] c = "d" -> "D" [] c = "e" -> "E" [] c = "u" -> "U" [] c = "p" -> "P"
      [] OTHER -> c

Lower(s) == [i \in 1..Len(s) |-> LowerChar(s[i])]
Upper(s) == [i \in 1..Len(s) |-> UpperChar(s[i])]

Asc == <<"a", "s", "c">>
Desc == <<"d", "e", "s", "c">>

\* Query(..., pattern="^(asc|desc)$"): the whole value is asc or desc
OrderPatternMatches(order) == order \in {Asc, Desc}

(* ------------------------------ storage -------------------------------- *)
Row(dt, miles, dur, pu, do) ==
    [pickup_datetime |-> dt, trip_miles |-> miles, trip_duration_minutes |-> dur,
     PULocationID |-> pu, DOLocationID |-> do]

\* the rows a trips table is made of in this model
RowPool == {Row(1, 1, 2, 1, 2), Row(2, 2, 1, 1, 1), Row(3, 1, 1, 2, 1)}

SeqsUpTo(S, n) == UNION {[1..k -> S] : k \in 0..n}

Datasets == SeqsUpTo(RowPool, MaxRows)

Min(a, b) == IF a <= b THEN a ELSE b

\* the rows "WHERE PULocationID = ?" keeps, in table order; values is the list of
\* bound parameters, empty when there is no condition
Filtered(ds, values) ==
    IF values = <<>> THEN ds
    ELSE SelectSeq(ds, LAMBDA row : row.PULocationID = values[1])

\* SELECT COUNT(*) as total FROM trips [WHERE PULocationID = ?]
CountRows(ds, values) == Len(Filtered(ds, values))

Perms(n) == {f \in [1..n -> 1..n] : \A i, j \in 1..n : f[i] = f[j] => i = j}

\* whether res is in the order "ORDER BY col dir" asks for; orderBy is <<>> when the
\* query has no ORDER BY, and then every order is one the engine may produce
InOrder(res, orderBy) ==
    \/ orderBy = <<>>
    \/ /\ orderBy # <<>>
       /\ \A i \in 1..(Len(res) - 1) :
            IF orderBy[2] = Upper(Desc)
            THEN res[i][orderBy[1]] >= res[i + 1][orderBy[1]]
            ELSE res[i][orderBy[1]] <= res[i + 1][orderBy[1]]

\* the results "SELECT * FROM trips [WHERE ..] [ORDER BY ..]" may produce: the kept
\* rows in any order that ORDER BY allows (ties and the unordered case are the
\* engine's choice)
QueryResults(ds, values, orderBy) ==
    LET F == Filtered(ds, values)
    IN {r \in {[i \in 1..Len(F) |-> F[p[i]]] : p \in Perms(Len(F))} :
          InOrder(r, orderBy)}

\* LIMIT ? OFFSET ? applied to a result
LimitOffset(res, limit, offset) ==
    SubSeq(res, offset + 1, Min(offset + limit, Len(res)))

\* variant: integer division instead of the ceiling
FloorDiv(a, b) == a \div b

\* math.ceil(total_records/limit): the float quotient of two integers below 2^53
\* is the correctly rounded quotient, whose ceiling is the integer ceiling for
\* every row count a SQLite file can hold
CeilDiv(a, b) == IF a % b = 0 THEN a \div b ELSE (a \div b) + 1

\* variant: pages counted from 0
OffsetFromPage(page, limit) == page * limit

\* offset = (page - 1) * limit
Offset(page, limit) == (page - 1) * limit

(* ------------------------------- state --------------------------------- *)
VARIABLES
    phase,      \* the process: "down", "importing", "startup", "serving", "aborted"
    urlSet,     \* whether the environment sets DATABASE_URL
    file,       \* tripdata.db on disk: "absent", "partial", "complete"
    attempts,   \* downloads started by the current process
    lastError,  \* what ended the last startup: "none", "ValueError", "HTTPError"
    boots,      \* processes started so far
    dataset,    \* the rows of the trips table, in table order
    counter,    \* limiter storage: hits counted per address in its current window
    ttl,        \* limiter storage: ticks until an address's window expires
    admitted,   \* per address, requests admitted at each of the last Window ticks
    req         \* the requests in flight, by slot

vars == <<phase, urlSet, file, attempts, lastError, boots, dataset, counter, ttl,
          admitted, req>>

bootVars == <<phase, urlSet, file, attempts, lastError, boots>>
limiterVars == <<counter, ttl, admitted>>

None == <<>>
NoBody == [none |-> TRUE]

\* a slot with no request in it
IdleReq ==
    [pc |-> "idle", addr |-> "", page |-> 0, limit |-> 0, PULocationID |-> None,
     sort_by |-> None, order |-> <<>>, offset |-> 0, values |-> <<>>,
     orderBy |-> <<>>, conn |-> "none", opens |-> 0, nCount |-> 0, nData |-> 0,
     total_records |-> 0, total_pages |-> 0, data |-> <<>>, status |-> 0,
     body |-> NoBody, steps |-> <<>>]

Slots == DOMAIN req
Addrs == DOMAIN counter

(* --------------------------- request inputs ---------------------------- *)
\* values the declarations accept, and values they or the function body refuse
PageInputs == 1..MaxPage
LimitInputs == 1..LimitCap
LocationInputs == {None, <<1>>}
SortInputs == {None, <<"trip_miles">>, <<"PULocationID">>}
OrderInputs == {Asc, Desc}

OddPages == {0}
OddLimits == {0, LimitCap + 1}
OddLocations == {<<0>>}
OddSorts == {<<"TRIP_MILES">>, <<"trip_miles; DROP TABLE trips">>}
OddOrders == {Upper(Asc), <<"D", "e", "s", "c">>, <<"u", "p">>}

Params(pg, lim, loc, sb, ord) ==
    [page |-> pg, limit |-> lim, PULocationID |-> loc, sort_by |-> sb, order |-> ord]

PlainParams ==
    {Params(pg, lim, loc, sb, ord) :
        pg \in PageInputs, lim \in LimitInputs, loc \in LocationInputs,
        sb \in SortInputs, ord \in OrderInputs}

\* the requests the odd values are put into: the defaults, and a filtered, sorted one
BaseParams ==
    {Params(1, LimitCap, None, None, Asc),
     Params(1, 1, <<1>>, <<"trip_miles">>, Desc)}

OddParams ==
    UNION {{[b EXCEPT !.page = v] : v \in OddPages}
           \cup {[b EXCEPT !.limit = v] : v \in OddLimits}
           \cup {[b EXCEPT !.PULocationID = v] : v \in OddLocations}
           \cup {[b EXCEPT !.sort_by = v] : v \in OddSorts}
           \cup {[b EXCEPT !.order = v] : v \in OddOrders} : b \in BaseParams}

AllParams == PlainParams \cup OddParams

(* ------------------------------ get_trips ------------------------------ *)
\* a request reaches the application (the guard on counter only keeps the count of
\* hits beyond the limit finite)
Arrive(r, a, p) ==
    /\ phase = "serving"
    /\ req[r].pc = "idle"
    /\ counter[a] <= RateLimit + 1
    /\ req' = [req EXCEPT ![r] =
                 [IdleReq EXCEPT !.pc = "validating_query", !.addr = a,
                                 !.page = p.page, !.limit = p.limit,
                                 !.PULocationID = p.PULocationID,
                                 !.sort_by = p.sort_by, !.order = p.order,
                                 !.steps = <<"received">>]]
    /\ UNCHANGED <<bootVars, dataset, limiterVars>>

\* the constraints the Query(...) declarations put on the parameters
QueryParamsValid(q) ==
    /\ q.page >= 1
    /\ q.limit >= 1 /\ q.limit <= LimitCap
    /\ (q.PULocationID # None => q.PULocationID[1] >= 1)
    /\ OrderPatternMatches(q.order)

Reject(q, code, detail, stage) ==
    [q EXCEPT !.pc = "done", !.status = code, !.body = [detail |-> detail],
              !.steps = Append(q.steps, stage)]

\* FastAPI resolves and validates the declared parameters before it calls the
\* endpoint, which is the function the limiter's decorator returned
ValidateQuery(r) ==
    /\ req[r].pc = "validating_query"
    /\ req' = [req EXCEPT ![r] =
                 IF QueryParamsValid(req[r])
                 THEN [req[r] EXCEPT !.pc = "rate_limit_check",
                                     !.steps = Append(req[r].steps, "validating_query")]
                 ELSE Reject(req[r], 422, "validation error", "validating_query")]
    /\ UNCHANGED <<bootVars, dataset, limiterVars>>

(* the limiter: slowapi's default strategy, a fixed window kept in memory *)
\* variant: one key for all addresses
HitSharedKey(a) ==
    /\ counter' = [b \in Addrs |-> counter[b] + 1]
    /\ ttl' = [b \in Addrs |-> IF counter[b] = 0 THEN Window ELSE ttl[b]]

\* the storage's incr: count the hit; the first hit of a window starts its expiry
Hit(a) ==
    /\ counter' = [counter EXCEPT ![a] = @ + 1]
    /\ ttl' = [ttl EXCEPT ![a] = IF counter[a] = 0 THEN Window ELSE @]

\* variant: the comparison is off by one
WithinLimitOffByOne(n) == n <= RateLimit + 1

\* "100/minute": the hit is within the limit
WithinLimit(n) == n <= RateLimit

\* @limiter.limit("100/minute"): the decorator's wrapper counts the request against
\* its address and raises RateLimitExceeded (429) before the function body runs
RateLimitCheck(r) ==
    LET a == req[r].addr IN
    /\ req[r].pc = "rate_limit_check"
    /\ Hit(a)
    /\ IF WithinLimit(counter[a] + 1)
       THEN /\ req' = [req EXCEPT ![r].pc = "validating_sort",
                                  ![r].steps = Append(@, "rate_limit_check")]
            /\ admitted' = [admitted EXCEPT ![a][1] = @ + 1]
       ELSE /\ req' = [req EXCEPT ![r] =
                        Reject(req[r], 429, "Rate limit exceeded", "rate_limit_check")]
            /\ UNCHANGED admitted
    /\ UNCHANGED <<bootVars, dataset>>

\* time passes: a window whose expiry is reached is dropped from the storage
Tick ==
    /\ phase = "serving"
    /\ ttl' = [a \in Addrs |-> IF ttl[a] > 0 THEN ttl[a] - 1 ELSE 0]
    /\ counter' = [a \in Addrs |-> IF ttl[a] <= 1 THEN 0 ELSE counter[a]]
    /\ admitted' = [a \in Addrs |-> <<0>> \o SubSeq(admitted[a], 1, Window - 1)]
    /\ UNCHANGED <<bootVars, dataset, req>>

\* variant: the allow-list check is left out
SortColumnUnchecked(sb) == TRUE

\* sort_by not in VALID_SORT_COLUMNS
SortColumnValid(sb) == sb \in SeqToSet(VALID_SORT_COLUMNS)

\* order.lower() not in ["asc", "desc"]
OrderValid(order) == Lower(order) \in {Asc, Desc}

\* variant: the direction is dropped from the clause
OrderByAscending(sb, order) == <<sb, Upper(Asc)>>

\* base_query += f" ORDER BY {sort_by} {order.upper()}"
OrderByClause(sb, order) == <<sb, Upper(order)>>

\* the function body up to the connection: offset, the WHERE values, and the ORDER BY
\* text, which is built only from a sort_by and an order that passed the checks
ValidateSort(r) ==
    LET q == req[r] IN
    /\ q.pc = "validating_sort"
    /\ req' = [req EXCEPT ![r] =
         IF q.sort_by # None /\ ~SortColumnValid(q.sort_by[1])
         THEN Reject(q, 400, "Invalid sort_by column", "validating_sort")
         ELSE IF q.sort_by # None /\ ~OrderValid(q.order)
         THEN Reject(q, 400, "Invalid order", "validating_sort")
         ELSE [q EXCEPT !.pc = "connecting",
                        !.offset = Offset(q.page, q.limit),
                        !.values = q.PULocationID,
                        !.orderBy = IF q.sort_by # None
                                    THEN OrderByClause(q.sort_by[1], q.order)
                                    ELSE <<>>,
                        !.steps = Append(q.steps, "validating_sort")]]
    /\ UNCHANGED <<bootVars, dataset, limiterVars>>

\* async with aiosqlite.connect(DATABASE_FILE) as db
Connect(r) ==
    /\ req[r].pc = "connecting"
    /\ req' = [req EXCEPT ![r].pc = "counting", ![r].conn = "open",
                          ![r].opens = @ + 1,
                          ![r].steps = Append(@, "connecting")]
    /\ UNCHANGED <<bootVars, dataset, limiterVars>>

\* the count query and total_pages
CountQuery(r) ==
    LET q == req[r]
        total == CountRows(dataset, q.values) IN
    /\ q.pc = "counting"
    /\ req' = [req EXCEPT ![r] =
                 [q EXCEPT !.pc = "fetching_page", !.nCount = @ + 1,
                           !.total_records = total,
                           !.total_pages = CeilDiv(total, q.limit),
                           !.steps = Append(q.steps, "counting")]]
    /\ UNCHANGED <<bootVars, dataset, limiterVars>>

\* the data query: final_query with values + [limit, offset]
DataQuery(r) ==
    LET q == req[r] IN
    /\ q.pc = "fetching_page"
    /\ \E res \in QueryResults(dataset, q.values, q.orderBy) :
         req' = [req EXCEPT ![r] =
                  [q EXCEPT !.pc = "responding", !.nData = @ + 1,
                            !.data = LimitOffset(res, q.limit, q.offset),
                            !.steps = Append(q.steps, "fetching_page")]]
    /\ UNCHANGED <<bootVars, dataset, limiterVars>>

\* the response document
ResponseBody(q) ==
    [metadata |-> [total_records |-> q.total_records, total_pages |-> q.total_pages,
                   current_page |-> q.page, limit |-> q.limit],
     data |-> q.data]

\* return {...}: leaving the async with block closes the connection
Respond(r) ==
    LET q == req[r] IN
    /\ q.pc = "responding"
    /\ req' = [req EXCEPT ![r] =
                 [q EXCEPT !.pc = "done", !.status = 200, !.body = ResponseBody(q),
                           !.conn = "closed",
                           !.steps = Append(q.steps, "responding")]]
    /\ UNCHANGED <<bootVars, dataset, limiterVars>>

\* variant: the connection is not closed on the failure path
FailedLeavingOpen(q) ==
    [q EXCEPT !.pc = "done", !.status = 500,
              !.body = [detail |-> "Internal Server Error"],
              !.steps = Append(q.steps, "failed")]

\* what a request is left with when db.execute or a fetch raises: the exception
\* leaves the async with block, which closes the connection, and the framework
\* answers 500
Failed(q) ==
    [q EXCEPT !.pc = "done", !.status = 500,
              !.body = [detail |-> "Internal Server Error"], !.conn = "closed",
              !.steps = Append(q.steps, "failed")]

QueryFails(r) ==
    /\ req[r].pc \in {"counting", "fetching_page"}
    /\ req' = [req EXCEPT ![r] = Failed(req[r])]
    /\ UNCHANGED <<bootVars, dataset, limiterVars>>

\* the response has been sent and the request's locals are gone
Forget(r) ==
    /\ req[r].pc = "done"
    /\ req' = [req EXCEPT ![r] = IdleReq]
    /\ UNCHANGED <<bootVars, dataset, limiterVars>>

\* the trips table changes under the application (it never writes it itself): a
\* row is appended, or the oldest row is deleted
RowInserted(P) ==
    /\ phase = "serving"
    /\ Len(dataset) < MaxRows
    /\ \E row \in P : dataset' = Append(dataset, row)
    /\ UNCHANGED <<bootVars, limiterVars, req>>

RowDeleted ==
    /\ phase = "serving"
    /\ dataset # <<>>
    /\ dataset' = Tail(dataset)
    /\ UNCHANGED <<bootVars, limiterVars, req>>

(* ------------------------------- startup ------------------------------- *)
\* the process's memory when it starts: no request, an empty limiter storage
FreshLimiter(A) ==
    /\ counter' = [a \in A |-> 0]
    /\ ttl' = [a \in A |-> 0]
    /\ admitted' = [a \in A |-> [k \in 1..Window |-> 0]]

\* the process is started (again), with whatever environment it is given
StartProcess ==
    /\ phase \in {"down", "aborted", "serving"}
    /\ boots < MaxBoots
    /\ phase' = "importing"
    /\ urlSet' \in BOOLEAN
    /\ attempts' = 0
    /\ lastError' = "none"
    /\ boots' = boots + 1
    /\ FreshLimiter(Addrs)
    /\ req' = [r \in Slots |-> IdleReq]
    /\ UNCHANGED <<file, dataset>>

\* where the module's import leaves the process: it raises ValueError when
\* DATABASE_URL is not set
AfterImport(url) == IF url THEN "startup" ELSE "aborted"

ImportModule ==
    /\ phase = "importing"
    /\ phase' = AfterImport(urlSet)
    /\ lastError' = IF urlSet THEN lastError ELSE "ValueError"
    /\ UNCHANGED <<urlSet, file, attempts, boots, dataset, limiterVars, req>>

\* os.path.exists(DATABASE_FILE)
Exists(f) == f # "absent"

\* startup_event: download_database_if_not_exists returns at once when the file
\* exists, and the application starts serving
SkipDownload ==
    /\ phase = "startup"
    /\ Exists(file)
    /\ phase' = "serving"
    /\ UNCHANGED <<urlSet, file, attempts, lastError, boots, dataset, limiterVars, req>>

\* httpx.stream("GET", DATABASE_URL_FROM_CLOUD, timeout=60.0)
BeginDownload ==
    /\ phase = "startup"
    /\ ~Exists(file)
    /\ phase' = "requesting"
    /\ attempts' = attempts + 1
    /\ UNCHANGED <<urlSet, file, lastError, boots, dataset, limiterVars, req>>

\* variant: the handler prints and does not raise again
AfterSwallowedHTTPError == "serving"

\* where a raised httpx.HTTPError leaves the process: the handler prints and
\* raises again, which ends the startup
AfterHTTPError == "aborted"

\* the request fails in transport, or raise_for_status() rejects a non-2xx status:
\* the file has not been opened
ResponseFails ==
    /\ phase = "requesting"
    /\ phase' = AfterHTTPError
    /\ lastError' = "HTTPError"
    /\ UNCHANGED <<urlSet, file, attempts, boots, dataset, limiterVars, req>>

\* open(DATABASE_FILE, "wb"): the file exists from here on
OpenFile ==
    /\ phase = "requesting"
    /\ phase' = "streaming"
    /\ file' = "partial"
    /\ UNCHANGED <<urlSet, attempts, lastError, boots, dataset, limiterVars, req>>

\* variant: the partial file is removed
FileCleanedUp(f) == "absent"

\* the file a broken transfer leaves behind: what was written stays
FileAfterBrokenStream(f) == f

\* iter_bytes() raises in the middle of the body
StreamBreaks ==
    /\ phase = "streaming"
    /\ phase' = AfterHTTPError
    /\ lastError' = "HTTPError"
    /\ file' = FileAfterBrokenStream(file)
    /\ UNCHANGED <<urlSet, attempts, boots, dataset, limiterVars, req>>

\* the body is written to the end
StreamEnds ==
    /\ phase = "streaming"
    /\ phase' = "serving"
    /\ file' = "complete"
    /\ UNCHANGED <<urlSet, attempts, lastError, boots, dataset, limiterVars, req>>

(* ---------------------------- specifications --------------------------- *)
\* one step of the request in slot r
Handle(r) ==
    \/ ValidateQuery(r)
    \/ RateLimitCheck(r)
    \/ ValidateSort(r)
    \/ Connect(r)
    \/ CountQuery(r)
    \/ DataQuery(r)
    \/ Respond(r)
    \/ QueryFails(r)
    \/ Forget(r)

\* a process that has started serving from a complete file
Serving(S, A) ==
    /\ phase = "serving"
    /\ urlSet = TRUE
    /\ file = "complete"
    /\ attempts = 0
    /\ lastError = "none"
    /\ boots = 1
    /\ counter = [a \in A |-> 0]
    /\ ttl = [a \in A |-> 0]
    /\ admitted = [a \in A |-> [k \in 1..Window |-> 0]]
    /\ req = [r \in S |-> IdleReq]

\* Spec: one client sends one request after another, with every combination of
\* the parameter inputs, over any table
Init ==
    /\ Serving({1}, {"a1"})
    /\ dataset \in Datasets

Next ==
    \/ \E p \in AllParams : Arrive(1, "a1", p)
    \/ Handle(1)

Spec == Init /\ [][Next]_vars

\* SpecChange: two clients page through a table that changes under the application
ChangeParams ==
    {Params(pg, lim, None, None, Asc) :
        pg \in PageInputs \cup OddPages, lim \in LimitInputs \cup OddLimits}
    \cup {Params(1, 1, None, sb, Asc) : sb \in OddSorts}

ChangeRows == {Row(1, 1, 2, 1, 2), Row(3, 1, 1, 2, 1)}

InitChange ==
    /\ Serving({1}, {"a1", "a2"})
    /\ dataset \in SeqsUpTo(ChangeRows, MaxRows)

NextChange ==
    \/ \E a \in Addrs, p \in ChangeParams : Arrive(1, a, p)
    \/ Handle(1)
    \/ RowInserted(ChangeRows)
    \/ RowDeleted

SpecChange == InitChange /\ [][NextChange]_vars

\* SpecConc: several requests of one client in flight at once while time passes
ConcParams == {Params(1, 1, None, None, Asc)}

ConcDataset == <<Row(1, 1, 2, 1, 2)>>

InitConc ==
    /\ Serving(1..NumSlots, {"a1"})
    /\ dataset = ConcDataset

NextConc ==
    \/ \E r \in Slots, p \in ConcParams : Arrive(r, "a1", p)
    \/ \E r \in Slots : Handle(r)
    \/ Tick

SpecConc == InitConc /\ [][NextConc]_vars

\* SpecBoot: the process is started, aborts or serves, and is started again
BootParams == {Params(1, LimitCap, None, None, Asc)}

InitBoot ==
    /\ phase = "down"
    /\ urlSet \in BOOLEAN
    /\ file = "absent"
    /\ attempts = 0
    /\ lastError = "none"
    /\ boots = 0
    /\ counter = [a \in {"a1"} |-> 0]
    /\ ttl = [a \in {"a1"} |-> 0]
    /\ admitted = [a \in {"a1"} |-> [k \in 1..Window |-> 0]]
    /\ req = [r \in {1} |-> IdleReq]
    /\ dataset = ConcDataset

NextBoot ==
    \/ StartProcess
    \/ ImportModule
    \/ SkipDownload
    \/ BeginDownload
    \/ ResponseFails
    \/ OpenFile
    \/ StreamBreaks
    \/ StreamEnds
    \/ \E p \in BootParams : Arrive(1, "a1", p)
    \/ Handle(1)

SpecBoot == InitBoot /\ [][NextBoot]_vars

(* ------------------------------- claims -------------------------------- *)
AllowListed ==
    {"pickup_datetime", "trip_miles", "trip_duration_minutes", "PULocationID",
     "DOLocationID"}

\* the parameters satisfy what the endpoint declares for them
DeclaredValid(q) ==
    /\ q.page >= 1
    /\ q.limit \in 1..LimitCap
    /\ (q.PULocationID = <<>> \/ q.PULocationID[1] >= 1)
    /\ q.order \in {<<"a", "s", "c">>, <<"d", "e", "s", "c">>}

\* C2: a request whose sort_by is present and not one of the 5 allow-listed names
\* never opens a connection and never runs the count or the data query, and ends
\* with a client error; whatever ORDER BY text a request carries is an allow-listed
\* name followed by ASC or DESC.
C2_SortAllowList ==
    \A r \in Slots :
        LET q == req[r] IN
        /\ (q.sort_by # <<>> /\ q.sort_by[1] \notin AllowListed) =>
              /\ q.opens = 0 /\ q.conn = "none" /\ q.nCount = 0 /\ q.nData = 0
              /\ q.orderBy = <<>>
              /\ (q.pc = "done" => q.status \in 400..499)
        /\ q.orderBy # <<>> =>
              /\ q.orderBy[1] \in AllowListed
              /\ q.orderBy[2] \in {<<"A", "S", "C">>, <<"D", "E", "S", "C">>}

\* a request with an injected sort_by, otherwise valid and admitted, has been
\* answered 400
C2_Witness ==
    \E r \in Slots :
        /\ req[r].pc = "done"
        /\ req[r].sort_by = <<"trip_miles; DROP TABLE trips">>
        /\ req[r].status = 400
        /\ req[r].steps[Len(req[r].steps)] = "validating_sort"

\* C3 (as claimed): a request whose other parameters are valid is accepted with
\* respect to order exactly when order, lowercased, is asc or desc.
C3_OrderCaseInsensitive ==
    \A r \in Slots :
        LET q == req[r]
            othersFine == /\ q.page >= 1 /\ q.limit \in 1..LimitCap
                          /\ (q.PULocationID = <<>> \/ q.PULocationID[1] >= 1)
                          /\ (q.sort_by = <<>> \/ q.sort_by[1] \in AllowListed)
            lowered == [i \in 1..Len(q.order) |-> LowerChar(q.order[i])]
            orderFine == lowered \in {<<"a", "s", "c">>, <<"d", "e", "s", "c">>}
        IN (q.pc = "done" /\ othersFine /\ q.status \in {400, 422}) <=> 
           (q.pc = "done" /\ othersFine /\ ~orderFine)

Max(a, b) == IF a >= b THEN a ELSE b

\* C5: the data query uses offset = (page-1)*limit and the response's data is exactly
\* the rows at positions offset+1 .. min(offset+limit, N) of the N-row filtered,
\* ordered result: at most limit rows, and none when offset >= N.
C5_Page ==
    [][\A r \in Slots :
         LET q == req[r]
             off == (q.page - 1) * q.limit IN
         /\ (q.pc = "fetching_page" /\ req'[r].pc = "responding") =>
               /\ q.page >= 1 /\ q.limit \in 1..LimitCap
               /\ q.offset = off
               /\ \E res \in QueryResults(dataset, q.values, q.orderBy) :
                     req'[r].data =
                        [i \in 1..Max(0, Min(q.limit, Len(res) - off)) |-> res[off + i]]
               /\ Len(req'[r].data) <= q.limit
               /\ (off >= CountRows(dataset, q.values) => req'[r].data = <<>>)
         /\ (req'[r].status = 200) =>
               /\ req'[r].body.data = req'[r].data
               /\ req'[r].body.metadata.current_page = req'[r].page
               /\ req'[r].body.metadata.limit = req'[r].limit
      ]_vars

\* the scenario of the specification scaled down: 3 rows, page 2 of pages of 2 rows
\* is the one row at position 3, and there are 2 pages
C5_Witness ==
    \E r \in Slots :
        /\ req[r].status = 200
        /\ req[r].page = 2 /\ req[r].limit = 2 /\ req[r].offset = 2
        /\ req[r].PULocationID = <<>>
        /\ Len(dataset) = 3
        /\ Len(req[r].body.data) = 1
        /\ req[r].body.metadata.total_pages = 2

\* C6: with a PULocationID filter f, a sort_by column c and an order o, every returned
\* row has pickup location f, the rows are ordered by c in direction o, and
\* total_records is the number of rows of the table with pickup location f.
C6_FilterSort ==
    \A r \in Slots :
        LET q == req[r] IN
        (q.status = 200 /\ q.PULocationID # <<>> /\ q.sort_by # <<>>) =>
            LET f == q.PULocationID[1]
                c == q.sort_by[1]
                d == q.body.data IN
            /\ \A i \in 1..Len(d) : d[i].PULocationID = f
            /\ \A i \in 1..(Len(d) - 1) :
                  IF q.order = <<"d", "e", "s", "c">>
                  THEN d[i][c] >= d[i + 1][c]
                  ELSE d[i][c] <= d[i + 1][c]
            /\ q.body.metadata.total_records =
                  Cardinality({i \in 1..Len(dataset) : dataset[i].PULocationID = f})

\* PULocationID=1, sort_by=trip_miles, order=desc over a table that holds another
\* pickup location and stores the two matching rows in ascending order
C6_Witness ==
    \E r \in Slots :
        /\ req[r].status = 200
        /\ req[r].PULocationID = <<1>>
        /\ req[r].sort_by = <<"trip_miles">>
        /\ req[r].order = <<"d", "e", "s", "c">>
        /\ dataset = <<Row(1, 1, 2, 1, 2), Row(3, 1, 1, 2, 1), Row(2, 2, 1, 1, 1)>>
        /\ req[r].body.data = <<Row(2, 2, 1, 1, 1), Row(1, 1, 2, 1, 2)>>
        /\ req[r].body.metadata.total_records = 2

\* C4: in every successful response total_pages is the ceiling of
\* total_records / limit, total_records being what the request's count query read,
\* whether or not the table changed before the data query ran.
C4_TotalPages ==
    \A r \in Slots :
        req[r].status = 200 =>
            LET m == req[r].body.metadata IN
            /\ m.total_records = req[r].total_records
            /\ m.limit = req[r].limit /\ m.limit >= 1
            /\ m.total_pages * m.limit >= m.total_records
            /\ (m.total_pages - 1) * m.limit < m.total_records
            /\ (m.total_records = 0 => m.total_pages = 0)
            /\ (m.total_records % m.limit = 0 =>
                  m.total_pages * m.limit = m.total_records)

\* a response whose count query read 2 rows (an exact multiple of limit 1, so 2
\* pages) and whose data query ran after the table had lost its rows
C4_Witness ==
    \E r \in Slots :
        /\ req[r].status = 200
        /\ req[r].body.metadata.total_records = 2
        /\ req[r].body.metadata.limit = 1
        /\ req[r].body.metadata.total_pages = 2
        /\ req[r].page = 1
        /\ req[r].body.data = <<>>

CodeOrder ==
    <<"received", "validating_query", "rate_limit_check", "validating_sort",
      "connecting", "counting", "fetching_page", "responding">>

IsPrefix(s, t) == Len(s) <= Len(t) /\ \A i \in 1..Len(s) : s[i] = t[i]

\* C8 (as claimed): the rate-limit check is the first step after a request is
\* received, so every answered request has been counted against its quota.
C8_RateLimitFirst ==
    \A r \in Slots :
        req[r].pc = "done" =>
            /\ Len(req[r].steps) >= 2
            /\ req[r].steps[2] = "rate_limit_check"

\* C8 (amended): the steps run in the order received, validation of the declared
\* parameters, rate_limit_check, validation of sort_by, connecting, counting,
\* fetching_page, responding.  A request whose declared parameters are invalid is
\* answered 422 without being counted, even when its address is over its quota;
\* every other request is counted, against its own address only, and is answered
\* 429 when over quota; the count query runs before the data query.
C8_StepOrder ==
    [][\A r \in Slots :
         LET q == req'[r] IN
         /\ q.pc # "idle" =>
               \/ IsPrefix(q.steps, CodeOrder)
               \/ /\ q.steps[Len(q.steps)] = "failed"
                  /\ IsPrefix(SubSeq(q.steps, 1, Len(q.steps) - 1), CodeOrder)
                  /\ Len(q.steps) \in {6, 7}
         /\ (q.pc = "done" /\ ~DeclaredValid(q)) =>
               /\ q.status = 422
               /\ q.steps = <<"received", "validating_query">>
         /\ (q.pc = "done" /\ DeclaredValid(q)) =>
               /\ Len(q.steps) >= 3 /\ q.steps[3] = "rate_limit_check"
         /\ q.nData > 0 => q.nCount > 0
         /\ (req[r].pc = "rate_limit_check" /\ q.pc # "rate_limit_check") =>
               /\ counter'[req[r].addr] = counter[req[r].addr] + 1
               /\ \A a \in Addrs \ {req[r].addr} : counter'[a] = counter[a]
               /\ (counter[req[r].addr] >= RateLimit <=> q.status = 429)
         /\ (req[r].pc # "rate_limit_check" /\ req[r] # q) => counter' = counter
      ]_vars

\* a request with page=0 from an address that is over its quota has been answered
\* 422, and one with an unknown sort_by from that address 429 is reachable as well
C8_Witness ==
    \E r \in Slots :
        /\ req[r].pc = "done"
        /\ req[r].page = 0
        /\ req[r].status = 422
        /\ counter[req[r].addr] > RateLimit
        /\ \E a \in Addrs : counter[a] = 0

RECURSIVE SumSeq(_)
SumSeq(s) == IF s = <<>> THEN 0 ELSE s[1] + SumSeq(Tail(s))

NoQueryRun(q) == q.opens = 0 /\ q.conn = "none" /\ q.nCount = 0 /\ q.nData = 0

\* C1 (as claimed): in every rolling interval of Window ticks at most RateLimit
\* requests of an address are admitted, and a request answered 429 has run no query.
C1_RollingWindow ==
    /\ \A a \in Addrs : SumSeq(admitted[a]) <= RateLimit
    /\ \A r \in Slots : req[r].status = 429 => NoQueryRun(req[r])

\* C1 (amended): in every fixed window of an address, which starts at the first
\* request counted after the previous window expired and lasts Window ticks, at most
\* RateLimit requests are admitted, under any interleaving of the requests in
\* flight; a request answered 429 has opened no connection and run no query.
C1_FixedWindow ==
    /\ \A a \in Addrs :
          /\ ttl[a] \in 0..Window
          /\ ttl[a] = 0 => (counter[a] = 0 /\ admitted[a][1] = 0)
          /\ ttl[a] > 0 =>
                LET inWindow == SumSeq(SubSeq(admitted[a], 1, Window - ttl[a] + 1))
                IN /\ inWindow <= RateLimit
                   /\ inWindow = Min(counter[a], RateLimit)
    /\ \A r \in Slots :
          req[r].status = 429 =>
              /\ NoQueryRun(req[r])
              /\ req[r].steps = <<"received", "validating_query", "rate_limit_check">>

\* one request has been answered 429, another 200, and more than RateLimit requests
\* were admitted within the last Window ticks, across a window boundary
C1_Witness ==
    /\ \E r, t \in Slots : req[r].status = 429 /\ req[t].status = 200
    /\ SumSeq(admitted["a1"]) > RateLimit

\* C10: an admitted, valid request opens exactly one connection; when the count or
\* the data query fails the answer is a server error with no metadata and no rows and
\* the connection is closed, as it is after a successful response; a step of one
\* request changes nothing of any other request.
C10_Connection ==
    [][\A r \in Slots :
         LET q == req'[r] IN
         /\ q.opens <= 1
         /\ q.pc \in {"counting", "fetching_page", "responding"} =>
               (q.opens = 1 /\ q.conn = "open")
         /\ q.status \in {200, 500} => (q.opens = 1 /\ q.conn = "closed")
         /\ q.status \in {400, 422, 429} => (q.opens = 0 /\ q.conn = "none")
         /\ q.status = 500 => DOMAIN q.body = {"detail"}
         /\ q.status = 200 => DOMAIN q.body = {"metadata", "data"}
         /\ (req[r].pc \in {"counting", "fetching_page"} /\ q.pc = "done") =>
               q.status = 500
         /\ req[r] # q => \A t \in Slots \ {r} : req'[t] = req[t]
      ]_vars

\* a request whose data query failed after its count query had run, beside another
\* request that was answered in full
C10_Witness ==
    \E r, t \in Slots :
        /\ req[r].status = 500 /\ req[r].nCount = 1 /\ req[r].nData = 0
        /\ req[r].conn = "closed"
        /\ req[t].status = 200 /\ req[t].conn = "closed"

\* C7: the process serves only after provisioning returned normally: with the URL
\* unset it aborts with a configuration error at import, with the file absent and
\* the download failing it aborts after exactly one attempt, and an aborted process
\* holds no request.
C7_ServeOnlyProvisioned ==
    /\ phase = "serving" => (urlSet /\ file # "absent" /\ lastError = "none")
    /\ (\E r \in Slots : req[r].pc # "idle") => phase = "serving"
    /\ attempts \in {0, 1}
    /\ (~urlSet /\ phase \notin {"down", "importing"}) =>
          (phase = "aborted" /\ lastError = "ValueError" /\ attempts = 0)
    /\ lastError = "HTTPError" => (phase = "aborted" /\ attempts = 1 /\ urlSet)
    /\ lastError # "none" => phase = "aborted"
    /\ phase \in {"requesting", "streaming"} => attempts = 1

\* a process whose only download attempt failed has aborted
C7_Witness ==
    /\ phase = "aborted"
    /\ lastError = "HTTPError"
    /\ attempts = 1
    /\ file = "absent"
    /\ \A r \in Slots : req[r].pc = "idle"

\* C9: a download that fails after the file was opened leaves the partial file in
\* place; a startup that finds a file, partial or complete, skips the download and
\* serves; a download that fails before the file is opened creates no file, and
\* the next startup attempts the download again.
C9_PartialFile ==
    [][/\ (phase = "streaming" /\ phase' = "aborted") => file' = "partial"
       /\ (phase = "startup" /\ file # "absent" /\ phase' # phase) =>
             (phase' = "serving" /\ attempts' = 0 /\ file' = file)
       /\ (phase = "requesting" /\ phase' = "aborted") => file' = "absent"
       /\ (phase = "startup" /\ file = "absent" /\ phase' # phase) =>
             (phase' = "requesting" /\ attempts' = 1)
       /\ (phase = "aborted" /\ phase' # phase) => (phase' = "importing" /\ file' = file)
      ]_vars

\* a later process serves a request from the file a broken download left behind
C9_Witness ==
    /\ phase = "serving"
    /\ file = "partial"
    /\ attempts = 0
    /\ boots >= 2
    /\ \E r \in Slots : req[r].pc = "done"

====
